---- MODULE Spec2Model ----
(***************************************************************************)
(* Model of the Perplexity ingestion pipeline                              *)
(* (services/feed-ingestion/runners/perplexity_runner.py):                 *)
(*   - PerplexityRunner.save_feed_items   (SpecSave, SpecRace, SpecUpdate) *)
(*   - PerplexityRunner.query_perplexity  (SpecQuery)                      *)
(*   - cache_response / get_cached_response  (SpecCache)                   *)
(*   - PerplexityRunner.extract_content_from_response  (SpecExtract)       *)
(*   - ingest_perplexity / ingest_perplexity_for_all_users  (SpecRun)      *)
(***************************************************************************)
EXTENDS Integers, Sequences, FiniteSets, TLC

VARIABLES
    dbUp,       \* the database answers (FALSE: every session call raises)
    autoflush,  \* SessionLocal configuration: queries see the session's pending adds
    feed,       \* committed FeedItem rows, in insertion order
    wr,         \* one save_feed_items call per writer: position and session state
    apiKey,     \* PERPLEXITY_API_KEY is set
    now,        \* datetime.utcnow(), in hours
    cache,      \* committed ContentCache rows, in insertion order
    qc,         \* one query_perplexity call per client: position and outcome
    dsState,    \* the "perplexity" DataSource row: "absent", "active" or "inactive"
    task,       \* the Celery tasks: slot 1 the invocation, the others its sub-runs
    jobs        \* IngestionJob records: the session's object and the committed row

envVars  == <<dbUp, autoflush, apiKey>>
saveVars == <<feed, wr>>
queryVars == <<now, cache, qc>>
runVars  == <<dsState, task, jobs>>
vars     == <<dbUp, autoflush, apiKey, feed, wr, now, cache, qc, dsState, task, jobs>>

\* what the steps of save_feed_items leave alone, besides the environment
outsideSave == <<queryVars, runVars>>
\* what the steps of query_perplexity leave alone, besides the environment
outsideQuery == <<saveVars, runVars>>

----------------------------------------------------------------------------
(* Bounds of the model *)

NumWriters == 2     \* sessions that may run save_feed_items
MaxBatch   == 2     \* longest content_items list of one call
MaxFeed    == 3     \* most FeedItem rows created in one behaviour
NumClients == 2     \* sessions that may run query_perplexity
MaxCache   == 2     \* most ContentCache rows written in one behaviour
MaxClock   == 24    \* the clock stops here
ClockStep  == 12    \* hours between two readings of the clock
NumTasks   == 3     \* task slots: the invocation and the sub-runs a fan-out dispatches
MaxJobs    == 6     \* most IngestionJob records created in one behaviour
MaxLines   == 4     \* most lines in the content of a response given to the extractor

----------------------------------------------------------------------------
(* Values *)

Absent == "<absent>"        \* a key the dict does not hold (dict.get default applies)
NoneId == -1                \* Python None where an id is expected
DsId   == 1                 \* data_source.id of the one "perplexity" DataSource row

Writers == 1..NumWriters

\* content items as extract_content_from_response can shape them: any of
\* title / summary / url may be missing
Items ==
    { [title |-> "A",    summary |-> "s1",   url |-> Absent],
      [title |-> "A",    summary |-> Absent, url |-> "u1"],
      [title |-> "B",    summary |-> "s2",   url |-> "u1"],
      [title |-> Absent, summary |-> "s1",   url |-> Absent] }

\* the items two overlapping calls are given: both carry the title "A"
RaceItems == { it \in Items : it.title = "A" /\ it.summary # Absent }

RECURSIVE SeqsUpTo(_, _)
SeqsUpTo(S, n) ==
    IF n = 0 THEN { <<>> }
    ELSE LET shorter == SeqsUpTo(S, n - 1)
         IN  shorter \cup { Append(s, x) : s \in { t \in shorter : Len(t) = n - 1 }, x \in S }

Batches == SeqsUpTo(Items, MaxBatch)
RaceBatches == SeqsUpTo(RaceItems, MaxBatch) \ { <<>> }

GeneralInfo == [category_name |-> "General", category_id |-> NoneId, user_id |-> NoneId]
SportsInfo  == [category_name |-> "Sports",  category_id |-> 1,      user_id |-> 1]
CategoryInfos == { GeneralInfo, SportsInfo }

\* str.lower() on the category names of the model
Lower(s) == CASE s = "Sports"  -> "sports"
              [] s = "Music"   -> "music"
              [] s = "General" -> "general"
              [] OTHER         -> s

\* Python truthiness of an optional integer id: None and 0 are falsy
TruthyId(x) == x # NoneId /\ x # 0

----------------------------------------------------------------------------
(* PerplexityRunner.save_feed_items *)

Min(S) == CHOOSE k \in S : \A j \in S : k <= j

\* rows the filter of lines 231-234 selects.  An item without a title makes
\* item.get("title") None, and `title == None` matches no row that has a title.
Matches(rows, item) ==
    { k \in 1..Len(rows) :
        /\ item.title # Absent
        /\ rows[k].title = item.title
        /\ rows[k].data_source_id = DsId }

\* the FeedItem built at lines 244-263
NewFeedItem(item, ci) ==
    [ title          |-> IF item.title = Absent THEN "Untitled" ELSE item.title,
      summary        |-> IF item.summary = Absent THEN "" ELSE item.summary,
      url            |-> IF item.url = Absent THEN "" ELSE item.url,
      source         |-> "Perplexity AI",
      data_source_id |-> DsId,
      category       |-> ci.category_name,
      tags           |-> IF ci.category_name # "General"
                         THEN <<"ai", "perplexity", Lower(ci.category_name)>>
                         ELSE <<"ai", "perplexity">>,
      raw_user_id     |-> IF TruthyId(ci.user_id) THEN ci.user_id ELSE NoneId,
      raw_category_id |-> IF TruthyId(ci.user_id) THEN ci.category_id ELSE NoneId,
      published_at    |-> now,
      updated_at      |-> NoneId ]      \* not set by the constructor

\* a mutated update: a value the item does not supply is blanked
UpdateRowDestructive(row, summary, url, t) ==
    [row EXCEPT !.summary = IF summary = Absent THEN "" ELSE summary,
                !.url     = IF url = Absent THEN "" ELSE url,
                !.updated_at = t]

\* lines 238-240: summary and url take the item's value, or keep their own,
\* and updated_at takes the time of the update
UpdateRow(row, summary, url, t) ==
    [row EXCEPT !.summary = IF summary = Absent THEN @ ELSE summary,
                !.url     = IF url = Absent THEN @ ELSE url,
                !.updated_at = t]

EmptySession == [ins |-> <<>>, upd |-> <<>>, created |-> 0, updated |-> 0]

\* a mutated lookup: never finds the existing row
SaveItemNoLookup(st, item, ci, committed) ==
    IF ~dbUp THEN st
    ELSE [st EXCEPT !.ins = Append(@, NewFeedItem(item, ci)), !.created = @ + 1]

\* one iteration of the loop of lines 228-270 in a session whose pending
\* inserts are st.ins and pending updates st.upd, against the committed rows.
\* A lookup on an unavailable database raises; the except of line 268 skips
\* the item.
SaveItem(st, item, ci, committed) ==
    IF ~dbUp THEN st
    ELSE LET cm == Matches(committed, item)
             pm == IF autoflush THEN Matches(st.ins, item) ELSE {}
         IN  IF cm # {}
             THEN [st EXCEPT !.upd = Append(@, [idx |-> Min(cm), summary |-> item.summary,
                                                url |-> item.url, at |-> now]),
                             !.updated = @ + 1]
             ELSE IF pm # {}
             THEN [st EXCEPT !.ins[Min(pm)] = UpdateRow(@, item.summary, item.url, now),
                             !.updated = @ + 1]
             ELSE [st EXCEPT !.ins = Append(@, NewFeedItem(item, ci)),
                             !.created = @ + 1]

RECURSIVE ApplyUpdates(_, _)
ApplyUpdates(rows, upd) ==
    IF upd = <<>> THEN rows
    ELSE LET u == Head(upd)
         IN  ApplyUpdates([rows EXCEPT ![u.idx] = UpdateRow(@, u.summary, u.url, u.at)],
                          Tail(upd))

RECURSIVE InsertUnique(_, _)
InsertUnique(rows, ins) ==
    IF ins = <<>> THEN rows
    ELSE InsertUnique(IF \E k \in 1..Len(rows) : rows[k].title = Head(ins).title
                      THEN rows ELSE Append(rows, Head(ins)), Tail(ins))

\* a mutated commit: the table refuses a second row with a stored title
CommitSessionUnique(rows, st) == InsertUnique(ApplyUpdates(rows, st.upd), st.ins)

\* self.db.commit() of line 272: the session's updates and inserts reach the table
CommitSession(rows, st) == ApplyUpdates(rows, st.upd) \o st.ins

\* the whole loop, run without interruption in one session
RECURSIVE SaveItems(_, _, _, _)
SaveItems(st, items, ci, committed) ==
    IF items = <<>> THEN st
    ELSE SaveItems(SaveItem(st, Head(items), ci, committed), Tail(items), ci, committed)

IdleWriter ==
    [pc |-> "idle", items |-> <<>>, i |-> 1, ci |-> GeneralInfo, st |-> EmptySession,
     n0 |-> 0, ret |-> "none"]

Active(w) == wr[w].pc = "loop"

RECURSIVE Reserved(_)
Reserved(W) ==
    IF W = {} THEN 0
    ELSE LET w == CHOOSE x \in W : TRUE
         IN  (IF Active(w) THEN Len(wr[w].items) ELSE 0) + Reserved(W \ {w})

\* entry of save_feed_items (lines 219-226)
WBegin(w, items, ci) ==
    /\ wr[w].pc = "idle"
    /\ Len(feed) + Reserved(Writers) + Len(items) <= MaxFeed
    /\ wr' = [wr EXCEPT ![w] = [pc |-> "loop", items |-> items, i |-> 1, ci |-> ci,
                                st |-> EmptySession, n0 |-> Len(feed), ret |-> "none"]]
    /\ UNCHANGED <<feed, envVars, outsideSave>>

\* one iteration of the for loop (lines 228-270)
WItem(w) ==
    /\ wr[w].pc = "loop"
    /\ wr[w].i <= Len(wr[w].items)
    /\ wr' = [wr EXCEPT ![w].st = SaveItem(@, wr[w].items[wr[w].i], wr[w].ci, feed),
                        ![w].i = @ + 1]
    /\ UNCHANGED <<feed, envVars, outsideSave>>

\* what stays of a call once it is over: its batch, its counts and how it ended
Ended(r, how) ==
    [r EXCEPT !.pc = "idle", !.ret = how, !.i = 1, !.ci = GeneralInfo,
              !.st.ins = <<>>, !.st.upd = <<>>]

\* lines 272-273: commit and return the counts; a failing commit raises
WCommit(w) ==
    /\ wr[w].pc = "loop"
    /\ wr[w].i > Len(wr[w].items)
    /\ IF dbUp
       THEN /\ feed' = CommitSession(feed, wr[w].st)
            /\ wr' = [wr EXCEPT ![w] = Ended(@, "returned")]
       ELSE /\ feed' = feed
            /\ wr' = [wr EXCEPT ![w] = Ended(@, "raised")]
    /\ UNCHANGED <<envVars, outsideSave>>

\* the database becomes unavailable
DbFail ==
    /\ dbUp
    /\ dbUp' = FALSE
    /\ UNCHANGED <<autoflush, apiKey, saveVars, queryVars, runVars>>


----------------------------------------------------------------------------
(* PerplexityRunner.query_perplexity and the ContentCache *)

HoursPerDay == 24     \* the key holds utcnow().strftime('%Y-%m-%d')
ExpireHours == 24     \* expire_hours of cache_response

Clients == 1..NumClients
Queries == { "q1", "q2" }
DefaultModel == "llama-3.1-sonar-small-128k-online"

\* a line of choices[0].message.content after strip(), by the test it passes
Title(t)   == [cls |-> "title", text |-> t]
Url(t)     == [cls |-> "url",   text |-> t]
Long(t)    == [cls |-> "long",  text |-> t]
ShortLine  == [cls |-> "short", text |-> "-"]
BlankLine  == [cls |-> "blank", text |-> ""]

NoResponse   == [kind |-> "none",  content |-> <<>>]    \* None
NetError     == [kind |-> "error", content |-> <<>>]    \* requests raised RequestException
EmptyPayload == [kind |-> "empty", content |-> <<>>]    \* the JSON body {}
\* a body whose text is not under choices[0].message.content
Malformed    == [kind |-> "malformed", content |-> <<[cls |-> "title", text |-> "A"]>>]
Choices(lines) == [kind |-> "choices", content |-> lines]

Payloads == { EmptyPayload, Choices(<<Title("A"), Url("u1"), Long("s1")>>) }

\* Python truthiness of a response: None and {} are falsy
Truthy(r) == r.kind # "none" /\ r.kind # "empty"

\* a mutated key: the hour of the day is part of it
CacheKeyHourly(q, m, t) == <<q, m, t>>

\* create_cache_key (lines 102-106): md5 of "query:model:day", kept as the triple
CacheKey(q, m, t) == <<q, m, t \div HoursPerDay>>

\* a mutated filter: the expiration time is not looked at
LiveEntriesAnyAge(rows, key, t) ==
    { k \in 1..Len(rows) : rows[k].cache_key = key /\ rows[k].data_source = "perplexity" }

\* the rows the filter of lines 110-114 selects at time t
LiveEntries(rows, key, t) ==
    { k \in 1..Len(rows) :
        /\ rows[k].cache_key = key
        /\ rows[k].data_source = "perplexity"
        /\ rows[k].expires_at > t }

\* get_cached_response (lines 108-116)
GetCachedResponse(rows, key, t) ==
    IF LiveEntries(rows, key, t) = {} THEN NoResponse
    ELSE rows[Min(LiveEntries(rows, key, t))].response_data

\* the ContentCache row of cache_response (lines 118-127)
CacheEntry(key, payload, t) ==
    [cache_key |-> key, data_source |-> "perplexity", response_data |-> payload,
     expires_at |-> t + ExpireHours]

\* a mutated cache_response: a row of the key is overwritten
CacheResponseUpsert(rows, key, payload, t) ==
    IF \E k \in 1..Len(rows) : rows[k].cache_key = key
    THEN [rows EXCEPT ![Min({ k \in 1..Len(rows) : rows[k].cache_key = key })] =
                          CacheEntry(key, payload, t)]
    ELSE Append(rows, CacheEntry(key, payload, t))

\* cache_response (lines 118-130): the row is added and committed
CacheResponse(rows, key, payload, t) == Append(rows, CacheEntry(key, payload, t))

\* a call: besides its position and outcome, the clock reading (at) and the
\* number of cache rows (n) when it looked the cache up
IdleClient ==
    [pc |-> "idle", key |-> <<"", "", 0>>, saw |-> FALSE, called |-> FALSE,
     wrote |-> FALSE, ret |-> "none", result |-> NoResponse, at |-> 0, n |-> 0]

Requesting(c) == qc[c].pc = "net"

\* `if cached_response:` (line 141)
CacheHit(cached) == Truthy(cached)

\* lines 134-142: credential test, cache key, cache lookup
QStart(c, q, m) ==
    /\ qc[c].pc = "idle"
    /\ Len(cache) + Cardinality({ d \in Clients : Requesting(d) }) < MaxCache
    /\ LET key    == CacheKey(q, m, now)
           cached == GetCachedResponse(cache, key, now)
           call   == [IdleClient EXCEPT !.key = key]
       IN  qc' = [qc EXCEPT ![c] =
                IF ~apiKey THEN [call EXCEPT !.ret = "returned"]
                ELSE IF ~dbUp THEN [call EXCEPT !.ret = "raised"]
                ELSE IF CacheHit(cached)
                     THEN [call EXCEPT !.saw = TRUE, !.ret = "returned", !.result = cached]
                     ELSE [call EXCEPT !.saw = LiveEntries(cache, key, now) # {},
                                       !.pc = "net", !.called = TRUE]]
    /\ UNCHANGED <<now, cache, envVars, outsideQuery>>

\* lines 165-178: the request, then cache_response and its commit
QNet(c, out) ==
    /\ qc[c].pc = "net"
    /\ IF out = NetError
       THEN /\ qc' = [qc EXCEPT ![c].pc = "idle", ![c].ret = "returned"]
            /\ cache' = cache
       ELSE IF dbUp
       THEN /\ cache' = CacheResponse(cache, qc[c].key, out, now)
            /\ qc' = [qc EXCEPT ![c].pc = "idle", ![c].ret = "returned",
                                ![c].wrote = TRUE, ![c].result = out]
       ELSE /\ qc' = [qc EXCEPT ![c].pc = "idle", ![c].ret = "raised"]
            /\ cache' = cache
    /\ UNCHANGED <<now, envVars, outsideQuery>>

\* cache_response(create_cache_key(q, m), payload) called on its own (lines
\* 102-106, 118-130): the row is added and committed
CachePut(q, m, payload) ==
    /\ dbUp
    /\ Len(cache) < MaxCache
    /\ cache' = CacheResponse(cache, CacheKey(q, m, now), payload, now)
    /\ UNCHANGED <<now, qc, envVars, outsideQuery>>

\* get_cached_response(create_cache_key(q, m)) called on its own (lines
\* 102-116).  The key reads the clock at line 105 (t0) and the filter reads it
\* again at line 113 (now).
CacheGet(c, q, m, t0) ==
    /\ qc[c].pc = "idle"
    /\ LET key == CacheKey(q, m, t0)
       IN  qc' = [qc EXCEPT ![c] =
                IF ~dbUp THEN [IdleClient EXCEPT !.key = key, !.at = now, !.ret = "raised"]
                ELSE [IdleClient EXCEPT !.key = key, !.at = now, !.n = Len(cache),
                                        !.saw = LiveEntries(cache, key, now) # {},
                                        !.ret = "got",
                                        !.result = GetCachedResponse(cache, key, now)]]
    /\ UNCHANGED <<now, cache, envVars, outsideQuery>>

\* time passes
Tick ==
    /\ now + ClockStep <= MaxClock
    /\ now' = now + ClockStep
    /\ UNCHANGED <<cache, qc, envVars, outsideQuery>>


----------------------------------------------------------------------------
(* PerplexityRunner.extract_content_from_response *)

EmptyItem == [title |-> Absent, summary |-> Absent, url |-> Absent]    \* {}

\* a mutated loop: a blank line, a title line and the end of the input flush
\* the open item also when it is empty
RECURSIVE ExtractLinesKeepEmpty(_, _, _)
ExtractLinesKeepEmpty(lines, cur, out) ==
    IF lines = <<>> THEN Append(out, cur)
    ELSE LET l    == Head(lines)
             rest == Tail(lines)
         IN  CASE l.cls = "blank" ->
                    ExtractLinesKeepEmpty(rest, EmptyItem, Append(out, cur))
               [] l.cls = "title" ->
                    ExtractLinesKeepEmpty(rest, [EmptyItem EXCEPT !.title = l.text],
                                          Append(out, cur))
               [] l.cls = "url" ->
                    ExtractLinesKeepEmpty(rest, [cur EXCEPT !.url = l.text], out)
               [] l.cls = "long" ->
                    ExtractLinesKeepEmpty(rest, [cur EXCEPT !.summary = l.text], out)
               [] OTHER ->
                    ExtractLinesKeepEmpty(rest, cur, out)

\* the loop of lines 193-212 over the stripped lines
RECURSIVE ExtractLines(_, _, _)
ExtractLines(lines, cur, out) ==
    IF lines = <<>>
    THEN IF cur # EmptyItem THEN Append(out, cur) ELSE out
    ELSE LET l    == Head(lines)
             rest == Tail(lines)
             flushed == IF cur # EmptyItem THEN Append(out, cur) ELSE out
         IN  CASE l.cls = "blank" ->
                    ExtractLines(rest, IF cur # EmptyItem THEN EmptyItem ELSE cur, flushed)
               [] l.cls = "title" ->
                    ExtractLines(rest, [EmptyItem EXCEPT !.title = l.text], flushed)
               [] l.cls = "url" ->
                    ExtractLines(rest, [cur EXCEPT !.url = l.text], out)
               [] l.cls = "long" ->
                    ExtractLines(rest, [cur EXCEPT !.summary = l.text], out)
               [] OTHER ->
                    ExtractLines(rest, cur, out)

\* lines 180-217: only a response with choices yields items
ExtractContent(resp) ==
    IF resp.kind = "choices" THEN ExtractLines(resp.content, EmptyItem, <<>>) ELSE <<>>

\* extract_content_from_response called on the response a session holds
\* (line 338); the items are what save_feed_items is given next
Extract(c, w) ==
    /\ qc[c].ret = "returned"
    /\ wr[w].pc = "idle"
    /\ wr[w].ret = "none"
    /\ wr' = [wr EXCEPT ![w].items = ExtractContent(qc[c].result), ![w].ret = "extracted"]
    /\ UNCHANGED <<feed, envVars, outsideSave>>

----------------------------------------------------------------------------
(* Query derivation (lines 46-100, 285-300) *)

\* the UserCategory and UserDB rows; the pipeline only reads them
UserCategoryRows ==
    << [id |-> 1, user_id |-> 1, category_name |-> "Sports", keywords |-> <<"nba", "nfl">>,
        is_active |-> TRUE],
       [id |-> 2, user_id |-> 2, category_name |-> "Music", keywords |-> <<>>,
        is_active |-> TRUE],
       [id |-> 3, user_id |-> 2, category_name |-> "Chess", keywords |-> <<"fide">>,
        is_active |-> FALSE] >>
UserRows == <<1, 2, 3>>

\* a mutated filter: inactive categories are selected as well
IsActiveOfAny(uid, c) == c.user_id = uid

\* get_user_categories (lines 46-51)
IsActiveOf(uid, c) == c.user_id = uid /\ c.is_active
GetUserCategories(uid) ==
    LET Keep(c) == IsActiveOf(uid, c) IN SelectSeq(UserCategoryRows, Keep)

\* the f-strings of lines 63 and 72
KeywordQuery(kws) ==
    CASE kws = <<"nba", "nfl">> -> "latest about nba, nfl"
      [] kws = <<"fide">>       -> "latest about fide"
      [] OTHER                  -> "latest about"
NameQuery(name) ==
    CASE name = "Music"  -> "latest in Music"
      [] name = "Sports" -> "latest in Sports"
      [] OTHER           -> "latest in"

DictQuery(q, cid, cname, uid) ==
    [shape |-> "dict", query |-> q, category_id |-> cid, category_name |-> cname,
     user_id |-> uid]
\* a plain string given as a query
StrQuery(q) ==
    [shape |-> "str", query |-> q, category_id |-> NoneId, category_name |-> "General",
     user_id |-> NoneId]
\* a dict given as a query that has no "query" key
NoKeyQuery ==
    [shape |-> "nokey", query |-> "", category_id |-> NoneId, category_name |-> "General",
     user_id |-> NoneId]

\* generate_personalized_queries (lines 53-80)
RECURSIVE GeneratePersonalized(_)
GeneratePersonalized(cats) ==
    IF cats = <<>> THEN <<>>
    ELSE LET c == Head(cats)
         IN  << DictQuery(IF c.keywords # <<>> THEN KeywordQuery(c.keywords)
                          ELSE NameQuery(c.category_name),
                          c.id, c.category_name, c.user_id) >>
             \o GeneratePersonalized(Tail(cats))

\* generate_fallback_queries (lines 82-100)
FallbackTexts == << "top technology news", "major world events", "AI and machine learning",
                    "science and research", "business and finance" >>
GenerateFallback ==
    [k \in 1..Len(FallbackTexts) |-> DictQuery(FallbackTexts[k], NoneId, "General", NoneId)]

\* lines 286-300
ResolveQueries(uid, hasQ, qarg) ==
    IF hasQ THEN qarg
    ELSE IF TruthyId(uid)
         THEN IF GetUserCategories(uid) # <<>>
              THEN GeneratePersonalized(GetUserCategories(uid))
              ELSE GenerateFallback
         ELSE GenerateFallback

\* category_info of lines 318-323
CategoryInfoOf(q) ==
    [category_name |-> q.category_name, category_id |-> q.category_id, user_id |-> q.user_id]

\* users_with_categories (lines 381-383): the users with an active category
HasActiveCategory(u) == \E k \in 1..Len(UserCategoryRows) : IsActiveOf(u, UserCategoryRows[k])
UsersWithCategories == SelectSeq(UserRows, HasActiveCategory)

----------------------------------------------------------------------------
(* query_perplexity as one step of a run (line 336) *)

\* the network is asked when there is a credential and the cache does not hit
AsksNetwork(rows, q, m, t) == apiKey /\ ~CacheHit(GetCachedResponse(rows, CacheKey(q, m, t), t))

\* what query_perplexity returns when the network, if asked, answers `out`
QPResult(rows, q, m, t, out) ==
    IF ~apiKey THEN NoResponse
    ELSE IF ~AsksNetwork(rows, q, m, t) THEN GetCachedResponse(rows, CacheKey(q, m, t), t)
    ELSE IF out = NetError THEN NoResponse
    ELSE out

\* the cache rows it leaves
QPCache(rows, q, m, t, out) ==
    IF AsksNetwork(rows, q, m, t) /\ out # NetError
    THEN CacheResponse(rows, CacheKey(q, m, t), out, t)
    ELSE rows

----------------------------------------------------------------------------
(* The DataSource row and get_data_source (lines 26-44) *)

\* lines 28-42: the row is created when there is none.  The constructor of
\* lines 33-39 does not name is_active, so the new row takes the default of
\* the column, which the schema fixes and the runner does not: is_active.
GetOrCreate(s, is_active) ==
    IF s = "absent" THEN (IF is_active THEN "active" ELSE "inactive") ELSE s

\* a mutated get_data_source: the row is returned whatever is_active
DataSourceReturnedAlways(s) == TRUE

\* line 44: the row is returned only when it is active
DataSourceReturned(s) == s = "active"

----------------------------------------------------------------------------
(* The Celery tasks ingest_perplexity and ingest_perplexity_for_all_users *)

MaxRetries == 3       \* max_retries of self.retry (lines 365, 443)

Tasks == 1..NumTasks
\* the slot of the invocation the scheduler dispatched: the first
Top   == CHOOSE t \in Tasks : \A u \in Tasks : t <= u
Subs  == Tasks \ { Top }

\* a mutated retry: one retry more than max_retries
RetryAllowedOneMore(retries) == retries + 1 <= MaxRetries + 1

\* Task.retry: the request is retried while request.retries + 1 <= max_retries,
\* beyond that the task fails
RetryAllowed(retries) == retries + 1 <= MaxRetries

\* upserts is the history of the loop: for each query sent, whether it had a
\* response and what save_feed_items returned for it
IdleTask ==
    [kind |-> "none", pc |-> "idle", user_id |-> NoneId, hasQ |-> FALSE, qarg |-> <<>>,
     retries |-> 0, sess |-> "none", dsSeen |-> "unknown", queries |-> <<>>, i |-> 1,
     job |-> 0, created |-> 0, updated |-> 0, progress |-> <<>>, asked |-> 0,
     users |-> <<>>, processed |-> 0, child |-> 0, result |-> "none", threw |-> "none",
     upserts |-> <<>>]

\* a task as the scheduler queues it
QueuedTask(kind, uid, hasQ, qarg) ==
    [IdleTask EXCEPT !.kind = kind, !.pc = "queued", !.user_id = uid, !.hasQ = hasQ,
                     !.qarg = qarg]

\* the start of an execution: runner = PerplexityRunner() opens a session
Attempt(r) ==
    [QueuedTask(r.kind, r.user_id, r.hasQ, r.qarg) EXCEPT !.retries = r.retries,
                                                          !.sess = "open"]

Terminal(r) == r.pc \in { "success", "failure" }
\* the execution is over: the task returned, failed, or waits for its retry
Over(r) == Terminal(r) \/ (r.pc = "queued" /\ r.result = "retry")

RunningJob ==
    [status |-> "running", completed_at |-> FALSE, error_message |-> "none",
     items_created |-> 0, items_updated |-> 0]

\* the IngestionJob of lines 303-309 and 390-396, once added and committed
NewJob(type, t) ==
    [job_type |-> type, task |-> t, attempt |-> task[t].retries + 1,
     obj |-> RunningJob, row |-> RunningJob]

\* a mutated completion: the counts are not recorded on the job
CompletedJobNoCounts(o, created, updated) ==
    [o EXCEPT !.status = "completed", !.completed_at = TRUE]

\* lines 344-347 and 422-425
CompletedJob(o, created, updated) ==
    [o EXCEPT !.status = "completed", !.completed_at = TRUE,
              !.items_created = created, !.items_updated = updated]

\* a mutated handler: the status of the job is left as it is
FailedJobSameStatus(o) ==
    [o EXCEPT !.completed_at = TRUE, !.error_message = "str(e)"]

\* lines 360-362 and 438-440
FailedJob(o) ==
    [o EXCEPT !.status = "failed", !.completed_at = TRUE, !.error_message = "str(e)"]

\* runner.db.commit(): the row takes the object's attributes
CommitJob(j) == [j EXCEPT !.row = j.obj]

\* lines 278-300 and 373-383: the runner, the data source, the queries or users
Resolve(t, kind) ==
    /\ task[t].kind = kind
    /\ task[t].pc = "queued"
    /\ \E is_active \in (IF dsState = "absent" THEN BOOLEAN ELSE { TRUE }) :
       LET a == Attempt(task[t])
       IN  IF ~dbUp
           THEN /\ task' = [task EXCEPT ![t] = [a EXCEPT !.pc = "failure",
                                                         !.result = "exception"]]
                /\ dsState' = dsState
           ELSE /\ dsState' = GetOrCreate(dsState, is_active)
                /\ task' = [task EXCEPT ![t] =
                     IF ~DataSourceReturned(GetOrCreate(dsState, is_active))
                     THEN [a EXCEPT !.dsSeen = dsState, !.pc = "success",
                                    !.result = "ds_error"]
                     ELSE [a EXCEPT !.dsSeen = dsState, !.pc = "create_job",
                                    !.queries = IF kind = "single"
                                                THEN ResolveQueries(a.user_id, a.hasQ, a.qarg)
                                                ELSE <<>>,
                                    !.users = IF kind = "fanout"
                                              THEN UsersWithCategories ELSE <<>>]]
    /\ UNCHANGED <<jobs, envVars, saveVars, queryVars>>

\* lines 302-311 and 389-398: the job record, added and committed before the try
CreateJob(t, type) ==
    /\ task[t].pc = "create_job"
    /\ Len(jobs) < MaxJobs
    /\ IF dbUp
       THEN /\ jobs' = Append(jobs, NewJob(type, t))
            /\ task' = [task EXCEPT ![t].pc = "loop", ![t].job = Len(jobs) + 1]
       ELSE /\ jobs' = jobs
            /\ task' = [task EXCEPT ![t].pc = "failure", ![t].result = "exception"]
    /\ UNCHANGED <<dsState, envVars, saveVars, queryVars>>

\* lines 343-356 and 421-434: the job completed and committed, the result
\* returned, the session closed by the finally.  A commit that raises is
\* caught by the except of the same try.
Complete(t) ==
    /\ task[t].pc = "loop"
    /\ LET j == task[t].job
           done == [jobs[j] EXCEPT !.obj = CompletedJob(@, task[t].created, task[t].updated)]
       IN  IF dbUp
           THEN /\ jobs' = [jobs EXCEPT ![j] = CommitJob(done)]
                /\ task' = [task EXCEPT ![t].pc = "success", ![t].result = "completed",
                                        ![t].sess = "closed"]
           ELSE /\ jobs' = [jobs EXCEPT ![j] = done]
                /\ task' = [task EXCEPT ![t].pc = "except", ![t].threw = "commit"]
    /\ UNCHANGED <<dsState, envVars, saveVars, queryVars>>

\* lines 358-368 and 436-446: the job failed and committed, the retry asked
\* of the scheduler, the session closed by the finally.  A commit that raises
\* leaves the handler before self.retry.
Except(t) ==
    /\ task[t].pc = "except"
    /\ LET j == task[t].job
           failed == [jobs[j] EXCEPT !.obj = FailedJob(@)]
       IN  IF dbUp
           THEN /\ jobs' = [jobs EXCEPT ![j] = CommitJob(failed)]
                /\ task' = [task EXCEPT ![t] =
                     IF RetryAllowed(task[t].retries)
                     THEN [@ EXCEPT !.pc = "queued", !.result = "retry",
                                    !.retries = @ + 1, !.sess = "closed"]
                     ELSE [@ EXCEPT !.pc = "failure", !.result = "max_retries",
                                    !.sess = "closed"]]
           ELSE /\ jobs' = [jobs EXCEPT ![j] = failed]
                /\ task' = [task EXCEPT ![t].pc = "failure", ![t].result = "exception",
                                        ![t].sess = "closed"]
    /\ UNCHANGED <<dsState, envVars, saveVars, queryVars>>

\* ingest_perplexity, lines 278-300
RunResolve(t) == Resolve(t, "single")

\* ingest_perplexity, lines 302-311
RunCreateJob(t) == task[t].kind = "single" /\ CreateJob(t, "perplexity")

\* a mutated progress event: the position counts from zero
ProgressEventFromZero(r) ==
    [current_query |-> r.queries[r.i].query, processed |-> r.i - 1,
     total |-> Len(r.queries), category |-> r.queries[r.i].category_name]

\* the meta of update_state (lines 326-334) in iteration r.i of run r; the
\* enumerate of line 317 counts from zero and the event carries i + 1
ProgressEvent(r) ==
    [current_query |-> r.queries[r.i].query, processed |-> r.i,
     total |-> Len(r.queries), category |-> r.queries[r.i].category_name]

\* ingest_perplexity, one iteration of the loop of lines 317-341: the progress
\* event, query_perplexity, and on a response the extraction and the save
RunLoop(t, out) ==
    /\ task[t].kind = "single"
    /\ task[t].pc = "loop"
    /\ task[t].i <= Len(task[t].queries)
    /\ LET r    == task[t]
           q    == r.queries[r.i]
           ci   == CategoryInfoOf(q)
           ev   == ProgressEvent(r)
           resp == QPResult(cache, q.query, DefaultModel, now, out)
           st   == SaveItems(EmptySession, ExtractContent(resp), ci, feed)
       IN  IF q.shape = "nokey"
           THEN \* query_info["query"] raises KeyError
                /\ task' = [task EXCEPT ![t].pc = "except", ![t].threw = "loop"]
                /\ UNCHANGED <<cache, feed>>
           ELSE IF apiKey /\ ~dbUp
           THEN \* get_cached_response raises
                /\ task' = [task EXCEPT ![t].pc = "except", ![t].threw = "loop",
                                        ![t].progress = Append(@, ev)]
                /\ UNCHANGED <<cache, feed>>
           ELSE /\ cache' = QPCache(cache, q.query, DefaultModel, now, out)
                /\ feed' = IF Truthy(resp) THEN CommitSession(feed, st) ELSE feed
                /\ task' = [task EXCEPT
                     ![t].progress = Append(@, ev),
                     ![t].asked = @ + 1,
                     ![t].created = @ + (IF Truthy(resp) THEN st.created ELSE 0),
                     ![t].updated = @ + (IF Truthy(resp) THEN st.updated ELSE 0),
                     ![t].upserts = Append(@, IF Truthy(resp)
                                              THEN [response |-> TRUE, created |-> st.created,
                                                    updated |-> st.updated]
                                              ELSE [response |-> FALSE, created |-> 0,
                                                    updated |-> 0]),
                     ![t].i = @ + 1]
    /\ UNCHANGED <<dsState, jobs, envVars, wr, now, qc>>

\* ingest_perplexity, lines 343-356
RunComplete(t) ==
    /\ task[t].kind = "single"
    /\ task[t].i > Len(task[t].queries)
    /\ Complete(t)

\* ingest_perplexity, lines 358-368
RunExcept(t) == task[t].kind = "single" /\ Except(t)

\* ingest_perplexity_for_all_users, lines 373-387
FanResolve(t) == Resolve(t, "fanout")

\* ingest_perplexity_for_all_users, lines 389-398
FanCreateJob(t) == task[t].kind = "fanout" /\ CreateJob(t, "perplexity_all_users")

\* lines 401-413: the progress event, then ingest_perplexity.delay(user.id)
\* queues the sub-run in a free slot
FanDispatch(t) ==
    /\ task[t].kind = "fanout"
    /\ task[t].pc = "loop"
    /\ task[t].i <= Len(task[t].users)
    /\ \E s \in Subs :
        /\ task[s].pc = "idle"
        /\ \A s2 \in Subs : task[s2].pc = "idle" => s <= s2
        /\ LET r  == task[t]
               ev == [current_user |-> r.users[r.i], processed_users |-> r.processed + 1,
                      total_users |-> Len(r.users)]
           IN  task' = [task EXCEPT ![t].progress = Append(@, ev),
                                    ![t].pc = "wait",
                                    ![t].child = s,
                                    ![s] = QueuedTask("single", r.users[r.i], FALSE, <<>>)]
    /\ UNCHANGED <<dsState, jobs, envVars, saveVars, queryVars>>

\* lines 414-419: result.get returns the sub-run's result, or raises its failure
FanGet(t) ==
    /\ task[t].kind = "fanout"
    /\ task[t].pc = "wait"
    /\ LET c == task[task[t].child]
       IN  /\ Terminal(c)
           /\ task' = [task EXCEPT ![t] =
                IF c.pc = "failure"
                THEN [@ EXCEPT !.pc = "except", !.threw = "loop"]
                ELSE IF c.result = "completed"     \* "created" in user_result
                THEN [@ EXCEPT !.pc = "loop", !.i = @ + 1,
                               !.created = @ + c.created, !.updated = @ + c.updated,
                               !.processed = @ + 1]
                ELSE [@ EXCEPT !.pc = "loop", !.i = @ + 1]]
    /\ UNCHANGED <<dsState, jobs, envVars, saveVars, queryVars>>

\* line 414: result.get(timeout=300) raises while the sub-run has not finished
FanTimeout(t) ==
    /\ task[t].kind = "fanout"
    /\ task[t].pc = "wait"
    /\ ~Terminal(task[task[t].child])
    /\ task' = [task EXCEPT ![t].pc = "except", ![t].threw = "loop"]
    /\ UNCHANGED <<dsState, jobs, envVars, saveVars, queryVars>>

\* ingest_perplexity_for_all_users, lines 421-434
FanComplete(t) ==
    /\ task[t].kind = "fanout"
    /\ task[t].i > Len(task[t].users)
    /\ Complete(t)

\* ingest_perplexity_for_all_users, lines 436-446
FanExcept(t) == task[t].kind = "fanout" /\ Except(t)

\* the scheduler dispatches the invocation
Invoke(kind, uid, hasQ, qarg) ==
    /\ task[Top].pc = "idle"
    /\ task' = [task EXCEPT ![Top] = QueuedTask(kind, uid, hasQ, qarg)]
    /\ UNCHANGED <<dsState, jobs, envVars, saveVars, queryVars>>

\* an operator switches the data source off
Deactivate ==
    /\ dsState = "active"
    /\ dsState' = "inactive"
    /\ UNCHANGED <<task, jobs, envVars, saveVars, queryVars>>

----------------------------------------------------------------------------
(* Specifications *)

\* query_perplexity calls by several sessions, with the clock running
InitQuery ==
    /\ dbUp = TRUE
    /\ autoflush = TRUE
    /\ feed = <<>>
    /\ wr = [w \in Writers |-> IdleWriter]
    /\ apiKey \in BOOLEAN
    /\ now = 0
    /\ cache = <<>>
    /\ qc = [c \in Clients |-> IdleClient]
    /\ dsState = "active"
    /\ task = [t \in Tasks |-> IdleTask]
    /\ jobs = <<>>

QueryBegin == \E c \in Clients, q \in Queries : QStart(c, q, DefaultModel)
QueryAnswer == \E c \in Clients, out \in Payloads \cup { NetError } : QNet(c, out)

NextQuery == QueryBegin \/ QueryAnswer \/ Tick \/ DbFail
SpecQuery == InitQuery /\ [][NextQuery]_vars

\* the cache used on its own: puts and gets of several sessions, with the
\* clock running.  A get computes its key at this reading of the clock or at
\* the one before.
KeyReadings == { t \in { now, now - ClockStep } : t >= 0 }

Put == \E q \in Queries, payload \in Payloads : CachePut(q, DefaultModel, payload)
Get == \E q \in Queries, t0 \in KeyReadings : CacheGet(Min(Clients), q, DefaultModel, t0)

InitCache == InitQuery /\ apiKey

NextCache == Put \/ Get \/ Tick \/ DbFail
SpecCache == InitCache /\ [][NextCache]_vars

\* the extractor on its own: a session holds a response, whose content is any
\* sequence of lines, and extracts it
LineKinds == { Title("A"), Title("B"), Url("u1"), Long("s1"), Long("s2"), ShortLine, BlankLine }
Responses ==
    { Choices(lines) : lines \in SeqsUpTo(LineKinds, MaxLines) }
        \cup { NoResponse, EmptyPayload, Malformed }

InitExtract ==
    /\ dbUp = TRUE
    /\ autoflush = TRUE
    /\ feed = <<>>
    /\ wr = [w \in Writers |-> IdleWriter]
    /\ apiKey = TRUE
    /\ now = 0
    /\ cache = <<>>
    /\ \E resp \in Responses :
          qc = [c \in Clients |-> IF c = Min(Clients)
                                  THEN [IdleClient EXCEPT !.ret = "returned", !.result = resp]
                                  ELSE IdleClient]
    /\ dsState = "active"
    /\ task = [t \in Tasks |-> IdleTask]
    /\ jobs = <<>>

NextExtract == Extract(Min(Clients), Min(Writers))
SpecExtract == InitExtract /\ [][NextExtract]_vars

\* save_feed_items: sequential calls (SpecSave), overlapping calls (SpecRace)

InitSave ==
    /\ dbUp = TRUE
    /\ autoflush \in BOOLEAN
    /\ feed = <<>>
    /\ wr = [w \in Writers |-> IdleWriter]
    /\ apiKey = TRUE
    /\ now = 0
    /\ cache = <<>>
    /\ qc = [c \in Clients |-> IdleClient]
    /\ dsState = "active"
    /\ task = [t \in Tasks |-> IdleTask]
    /\ jobs = <<>>

\* strictly sequential calls: a call starts only when no other is running
SeqBegin ==
    \E items \in Batches, ci \in CategoryInfos : WBegin(1, items, ci)

\* overlapping calls: a call may start while another is running
RaceBegin ==
    \E w \in Writers, items \in RaceBatches : WBegin(w, items, GeneralInfo)

StepItem == \E w \in Writers : WItem(w)
StepCommit == \E w \in Writers : WCommit(w)

NextSave == SeqBegin \/ StepItem \/ StepCommit \/ DbFail
SpecSave == InitSave /\ [][NextSave]_vars

\* sequential calls hours apart: the clock moves between two calls (a call
\* lasts far less than a step of the clock)
TickIdle == (\A w \in Writers : ~Active(w)) /\ Tick

\* calls that save one title again and again, for either category
UpdateBatches == SeqsUpTo({ it \in Items : it.title = "A" }, MaxBatch) \ { <<>> }
UpdateBegin ==
    \E items \in UpdateBatches, ci \in CategoryInfos : WBegin(Min(Writers), items, ci)

NextUpdate == UpdateBegin \/ StepItem \/ StepCommit \/ TickIdle \/ DbFail
SpecUpdate == InitSave /\ [][NextUpdate]_vars

NextRace == RaceBegin \/ StepItem \/ StepCommit \/ DbFail
SpecRace == InitSave /\ [][NextRace]_vars

\* one invocation of an entry point, with its retries and sub-runs
UserIds == { NoneId, 0, 1, 3 }
ExplicitQueries == { <<StrQuery("q1")>>, <<StrQuery("q1"), NoKeyQuery>> }
\* what the network answers a run: a failure, or one titled item
RunOutcomes == { NetError, Choices(<<Title("A"), Url("u1"), Long("s1")>>) }

InitRun ==
    /\ dbUp = TRUE
    /\ autoflush = TRUE
    /\ feed = <<>>
    /\ wr = [w \in Writers |-> IdleWriter]
    /\ apiKey \in BOOLEAN
    /\ now = 0
    /\ cache = <<>>
    /\ qc = [c \in Clients |-> IdleClient]
    /\ dsState \in { "absent", "active", "inactive" }
    /\ task = [t \in Tasks |-> IdleTask]
    /\ jobs = <<>>

InvokeSingle ==
    \/ \E uid \in UserIds : Invoke("single", uid, FALSE, <<>>)
    \/ \E qs \in ExplicitQueries : Invoke("single", NoneId, TRUE, qs)
InvokeFanout == Invoke("fanout", NoneId, FALSE, <<>>)

NextRun ==
    \/ InvokeSingle
    \/ InvokeFanout
    \/ \E t \in Tasks : RunResolve(t)
    \/ \E t \in Tasks : RunCreateJob(t)
    \/ \E t \in Tasks, out \in RunOutcomes : RunLoop(t, out)
    \/ \E t \in Tasks : RunComplete(t)
    \/ \E t \in Tasks : RunExcept(t)
    \/ FanResolve(Top)
    \/ FanCreateJob(Top)
    \/ FanDispatch(Top)
    \/ FanGet(Top)
    \/ FanTimeout(Top)
    \/ FanComplete(Top)
    \/ FanExcept(Top)
    \/ Deactivate
    \/ DbFail
SpecRun == InitRun /\ [][NextRun]_vars

----------------------------------------------------------------------------
(* Claims about save_feed_items *)

RowsTitled(t) == { k \in 1..Len(feed) : feed[k].title = t /\ feed[k].data_source_id = DsId }

\* C5: after any sequence of non-overlapping save_feed_items calls from an
\* empty store, whatever the items (titled or not, same title twice in a
\* batch), the store holds at most one feed item per (title, data source).
\* Stated for sessions whose lookups see the rows the call itself has added
\* (autoflush), the configuration most favourable to the claim.
C5_AtMostOnePerTitle ==
    autoflush =>
        \A i, j \in 1..Len(feed) :
            (feed[i].title = feed[j].title /\ feed[i].data_source_id = feed[j].data_source_id)
                => i = j

\* a batch of well-formed items: every item has a title, no title twice
WellFormed(items) ==
    /\ \A k \in 1..Len(items) : items[k].title # Absent
    /\ \A k, l \in 1..Len(items) : items[k].title = items[l].title => k = l

\* the titles the store held when the call of writer w began
TitlesBefore(w) == { feed[k].title : k \in 1..wr[w].n0 }

\* C9: a sequential save_feed_items call on well-formed items with pairwise
\* distinct titles returns created = the number of batch titles that had no
\* record in the store and updated = the number that had one.
C9_CountsMatchStore ==
    \A w \in Writers :
        (wr[w].ret = "returned" /\ WellFormed(wr[w].items)) =>
            /\ wr[w].st.created =
                 Cardinality({ k \in 1..Len(wr[w].items) : wr[w].items[k].title \notin TitlesBefore(w) })
            /\ wr[w].st.updated =
                 Cardinality({ k \in 1..Len(wr[w].items) : wr[w].items[k].title \in TitlesBefore(w) })

\* a call on two differently titled items, one already stored and one new,
\* has returned created = 1 and updated = 1
C9_Witness ==
    \E w \in Writers :
        /\ wr[w].ret = "returned"
        /\ WellFormed(wr[w].items)
        /\ Len(wr[w].items) = 2
        /\ wr[w].n0 > 0
        /\ wr[w].st.created = 1
        /\ wr[w].st.updated = 1

\* C6: two overlapping save_feed_items calls that both looked the same title
\* up and found nothing both create a record: once both have committed, the
\* store holds two feed items for that one (title, data source).
C6_BothCreate ==
    \A a, b \in Writers :
        ( /\ a # b
          /\ wr[a].ret = "returned" /\ wr[a].st.created > 0
          /\ wr[b].ret = "returned" /\ wr[b].st.created > 0 )
            => Cardinality(RowsTitled("A")) >= 2

\* two overlapping one-item calls in autoflushing sessions have both created
\* a row titled "A"
C6_Witness ==
    /\ autoflush
    /\ \E a, b \in Writers :
        /\ a # b
        /\ wr[a].ret = "returned" /\ Len(wr[a].items) = 1 /\ wr[a].st.created = 1
        /\ wr[b].ret = "returned" /\ Len(wr[b].items) = 1 /\ wr[b].st.created = 1
    /\ Cardinality(RowsTitled("A")) = 2

\* the value a field of a record has after the items were applied in order:
\* the last value an item supplies, the prior value when none supplies one
RECURSIVE Latest(_, _, _)
Latest(items, field, prior) ==
    IF items = <<>> THEN prior
    ELSE Latest(Tail(items), field,
                IF Head(items)[field] = Absent THEN prior ELSE Head(items)[field])

\* the items of the call of writer w that find row k of the store: the items
\* with its title, when it is the record the lookup returns for that title
ItemsFinding(w, k) ==
    LET Same(it) == it.title = feed[k].title
    IN  IF k = Min(RowsTitled(feed[k].title)) THEN SelectSeq(wr[w].items, Same) ELSE <<>>

\* the call of writer w commits and returns in this step
Returns(w) == wr[w].pc = "loop" /\ wr'[w].ret = "returned"

\* C19: a save that finds an existing record changes only its summary, url
\* and update timestamp: summary and url take the item's value when it
\* supplies one and keep the prior value when it does not; title, category,
\* tags, provenance (user id, category id), source and publish timestamp stay,
\* also when the saving query is of another user or category.
C19_UpdateFrame ==
    [][ \A k \in 1..Len(feed) :
          /\ feed'[k].title = feed[k].title
          /\ feed'[k].category = feed[k].category
          /\ feed'[k].tags = feed[k].tags
          /\ feed'[k].raw_user_id = feed[k].raw_user_id
          /\ feed'[k].raw_category_id = feed[k].raw_category_id
          /\ feed'[k].source = feed[k].source
          /\ feed'[k].data_source_id = feed[k].data_source_id
          /\ feed'[k].published_at = feed[k].published_at
          /\ \A w \in Writers :
                Returns(w) =>
                    /\ feed'[k].summary = Latest(ItemsFinding(w, k), "summary", feed[k].summary)
                    /\ feed'[k].url = Latest(ItemsFinding(w, k), "url", feed[k].url)
                    /\ feed'[k].updated_at =
                          (IF ItemsFinding(w, k) = <<>> THEN feed[k].updated_at ELSE now)
          /\ (\A w \in Writers : ~Returns(w)) => feed'[k] = feed[k]
      ]_vars

\* a record created for the Sports category of user 1 was found hours later
\* by a call whose item supplies a url and no summary: the summary stayed,
\* the url and the update timestamp changed, the rest is as created
C19_Witness ==
    \E w \in Writers :
        /\ wr[w].ret = "returned"
        /\ wr[w].items = << [title |-> "A", summary |-> Absent, url |-> "u1"] >>
        /\ wr[w].st.updated = 1
        /\ Len(feed) = 1
        /\ feed[1] = [NewFeedItem([title |-> "A", summary |-> "s1", url |-> Absent], SportsInfo)
                         EXCEPT !.published_at = 0, !.url = "u1", !.updated_at = now]
        /\ now > 0

----------------------------------------------------------------------------
(* Claims about query_perplexity *)

\* C10: query_perplexity issues a network request only when a credential is
\* configured and the cache lookup misses: without a credential it returns
\* "unavailable" (None) with no network call, and whenever an unexpired entry
\* exists for the key, whatever its payload, there is no network call and no
\* cache write.
C10_NetworkOnlyOnMiss ==
    \A c \in Clients :
        /\ ~apiKey => (~qc[c].called /\ ~qc[c].wrote /\ qc[c].result = NoResponse)
        /\ qc[c].saw => (~qc[c].called /\ ~qc[c].wrote)

----------------------------------------------------------------------------
(* Claims about the cache *)

Day(t) == t \div HoursPerDay
\* when row k of the cache was put, and about which query and model
PutTime(k) == cache[k].expires_at - ExpireHours
SameQuery(k, key) == cache[k].cache_key[1] = key[1] /\ cache[k].cache_key[2] = key[2]

\* C11: after cache_response(key_for(q, m), payload) with the default TTL,
\* every get_cached_response(key_for(q, m)) made later on the same UTC day
\* returns a stored payload, not "absent".
C11_RoundTripSameDay ==
    \A c \in Clients :
        ( /\ qc[c].ret = "got"
          /\ qc[c].key[3] = Day(qc[c].at)
          /\ \E k \in 1..qc[c].n :
                /\ SameQuery(k, qc[c].key)
                /\ Day(PutTime(k)) = Day(qc[c].at)
                /\ PutTime(k) <= qc[c].at )
        => /\ qc[c].result # NoResponse
           /\ \E k \in 1..qc[c].n :
                 SameQuery(k, qc[c].key) /\ cache[k].response_data = qc[c].result

\* a get made at a later reading of the clock than the put, on the same day,
\* has returned the stored payload
C11_Witness ==
    \E c \in Clients, k \in 1..Len(cache) :
        /\ qc[c].ret = "got"
        /\ k <= qc[c].n
        /\ SameQuery(k, qc[c].key)
        /\ qc[c].key[3] = Day(qc[c].at)
        /\ Day(PutTime(k)) = Day(qc[c].at)
        /\ PutTime(k) < qc[c].at
        /\ qc[c].result = cache[k].response_data

\* C12: a cache read never returns a stale entry: a payload comes only from
\* an entry of that key and provider whose expiration time is strictly after
\* the time of the read; the read returns "absent" when every entry of the
\* key is expired; and a lookup whose key is computed on a later day than
\* every put for the query misses, expired or not.
C12_NeverStale ==
    \A c \in Clients :
        qc[c].ret = "got" =>
            /\ qc[c].result # NoResponse =>
                  \E k \in 1..qc[c].n :
                      /\ cache[k].cache_key = qc[c].key
                      /\ cache[k].data_source = "perplexity"
                      /\ cache[k].expires_at > qc[c].at
                      /\ cache[k].response_data = qc[c].result
            /\ (\A k \in 1..qc[c].n :
                    cache[k].cache_key = qc[c].key => cache[k].expires_at <= qc[c].at)
                  => qc[c].result = NoResponse
            /\ (\A k \in 1..qc[c].n :
                    SameQuery(k, qc[c].key) => Day(PutTime(k)) < qc[c].key[3])
                  => qc[c].result = NoResponse

\* a read found an expired and an unexpired entry of its key and returned the
\* payload of the unexpired one
C12_Witness ==
    \E c \in Clients, k1, k2 \in 1..Len(cache) :
        /\ qc[c].ret = "got"
        /\ k1 < k2 /\ k2 <= qc[c].n
        /\ cache[k1].cache_key = qc[c].key /\ cache[k1].expires_at <= qc[c].at
        /\ cache[k2].cache_key = qc[c].key /\ cache[k2].expires_at > qc[c].at
        /\ cache[k1].response_data # cache[k2].response_data
        /\ qc[c].result = cache[k2].response_data

\* C18: the cache is append-only under every interleaving: a step either
\* leaves it alone or adds exactly one row, no row is ever modified or
\* removed, the row added is the one of a call whose network request
\* succeeded, every call that returns a network response has added exactly
\* one row, and a cache hit, a missing credential or a failed request adds
\* none; every unexpired row keeps its key readable.
C18_AppendOnly ==
    [][ /\ Len(cache') \in { Len(cache), Len(cache) + 1 }
        /\ \A k \in 1..Len(cache) : cache'[k] = cache[k]
        /\ Len(cache') = Len(cache) + 1 =>
              \E c \in Clients :
                  /\ qc[c].pc = "net" /\ qc'[c].pc = "idle"
                  /\ qc'[c].wrote
                  /\ cache'[Len(cache')].cache_key = qc[c].key
                  /\ cache'[Len(cache')].response_data = qc'[c].result
        /\ \A c \in Clients :
              (qc[c].pc = "net" /\ qc'[c].pc = "idle" /\ qc'[c].ret = "returned"
                  /\ qc'[c].result # NoResponse) => Len(cache') = Len(cache) + 1
        /\ \A c \in Clients :
              (qc[c].pc = "idle" /\ qc'[c] # qc[c]) => cache' = cache
        /\ \A k \in 1..Len(cache') :
              cache'[k].expires_at > now' =>
                  GetCachedResponse(cache', cache'[k].cache_key, now') # NoResponse
      ]_vars

\* two overlapping calls for one query both missed and both wrote: two
\* unexpired rows of one key with different payloads
C18_Witness ==
    \E c, d \in Clients :
        /\ c # d
        /\ qc[c].wrote /\ qc[d].wrote
        /\ qc[c].key = qc[d].key
        /\ Len(cache) = 2
        /\ cache[1].cache_key = cache[2].cache_key
        /\ cache[1].response_data # cache[2].response_data
        /\ Cardinality(LiveEntries(cache, cache[1].cache_key, now)) = 2

----------------------------------------------------------------------------
(* Claims about the job orchestrator *)

\* the single run of task t left its loop without an exception
LoopDone(t) ==
    /\ task[t].kind = "single"
    /\ task[t].threw # "loop"
    /\ task[t].job # 0
    /\ task[t].i > Len(task[t].queries)

\* C13: a single run whose loop raises no exception reports exactly one
\* progress event per resolved query, in query order, before the query is
\* sent; the i-th event carries processed = i and total = the number of
\* resolved queries; so a run for a user id without active categories reports
\* exactly 5 events, and its job record has the single-user job type.
C13_OneEventPerQuery ==
    \A t \in Tasks :
        task[t].kind = "single" =>
            /\ \A k \in 1..Len(task[t].progress) :
                  /\ k <= Len(task[t].queries)
                  /\ task[t].progress[k].processed = k
                  /\ task[t].progress[k].total = Len(task[t].queries)
                  /\ task[t].progress[k].current_query = task[t].queries[k].query
            /\ task[t].asked <= Len(task[t].progress)
            /\ Len(task[t].progress) <= task[t].asked + 1
            /\ LoopDone(t) =>
                  /\ Len(task[t].progress) = Len(task[t].queries)
                  /\ task[t].asked = Len(task[t].queries)
                  /\ jobs[task[t].job].job_type = "perplexity"
                  /\ (~task[t].hasQ /\ GetUserCategories(task[t].user_id) = <<>>) =>
                        Len(task[t].progress) = 5

\* a run for user 3, who has no category, completed after 5 progress events
C13_Witness ==
    \E t \in Tasks :
        /\ LoopDone(t)
        /\ task[t].user_id = 3
        /\ task[t].result = "completed"
        /\ Len(task[t].progress) = 5
        /\ task[t].progress[5].processed = 5
        /\ task[t].progress[5].total = 5
        /\ jobs[task[t].job].job_type = "perplexity"

JobStatuses == { "running", "completed", "failed" }

\* C1: the status of every job record is running, completed or failed; it is
\* created as running; and once it is completed or failed it never changes
\* again, also when the commit of the completed status raises.
C1_StatusMonotonic ==
    [][ /\ \A j \in 1..Len(jobs') : jobs'[j].obj.status \in JobStatuses
        /\ \A j \in 1..Len(jobs') : j > Len(jobs) => jobs'[j].obj.status = "running"
        /\ \A j \in 1..Len(jobs) :
              jobs[j].obj.status # "running" => jobs'[j].obj.status = jobs[j].obj.status
      ]_vars

\* C2: when an exception escaped the query loop of a single run, the run's
\* job row is failed, with an error message and a completion timestamp, once
\* the execution is over (so before any retry), and is never left running.
C2_FailureRecorded ==
    \A t \in Tasks :
        (task[t].kind = "single" /\ task[t].threw = "loop" /\ Over(task[t])) =>
            LET row == jobs[task[t].job].row
            IN  /\ row.status = "failed"
                /\ row.error_message # "none"
                /\ row.completed_at

\* the execution of task t created a job record
HasJob(t) ==
    \E j \in 1..Len(jobs) : jobs[j].task = t /\ jobs[j].attempt = task[t].retries + 1

\* the execution returned the error result and did nothing else
OnlyErrorResult(t) ==
    /\ task[t].pc = "success"
    /\ task[t].result = "ds_error"
    /\ ~HasJob(t)
    /\ task[t].progress = <<>>
    /\ task[t].asked = 0

C4_CompletedProcessedAll ==
    \A t \in Tasks :
        (task[t].kind = "fanout" /\ task[t].result = "completed") =>
            task[t].processed = Len(task[t].users)

\* C7: every invocation closes the session it opened before it exits, on
\* every exit path.
C7_SessionClosed ==
    \A t \in Tasks : Over(task[t]) => task[t].sess # "open"

\* C8: an invocation that fails on every attempt is attempted at most 3
\* times in total.
C8_AtMostThreeAttempts ==
    \A t \in Tasks : task[t].retries + 1 <= 3

\* C8, amended: an invocation that fails on every attempt is attempted at
\* most 4 times in total, the first execution and max_retries = 3 retries;
\* the execution that uses up the retries ends the invocation as failed.
C8_AtMostFourAttempts ==
    \A t \in Tasks :
        /\ task[t].retries + 1 <= MaxRetries + 1
        /\ task[t].result = "max_retries" =>
              (task[t].pc = "failure" /\ task[t].retries = MaxRetries)

\* the invocation failed four times, each execution leaving a failed job row
C8_Witness ==
    /\ task[Top].result = "max_retries"
    /\ task[Top].retries + 1 = 4
    /\ Cardinality({ j \in 1..Len(jobs) : jobs[j].task = Top /\ jobs[j].row.status = "failed" }) = 4

\* the sums of the per-query counts of a run
RECURSIVE SumCreated(_)
SumCreated(us) == IF us = <<>> THEN 0 ELSE Head(us).created + SumCreated(Tail(us))
RECURSIVE SumUpdated(_)
SumUpdated(us) == IF us = <<>> THEN 0 ELSE Head(us).updated + SumUpdated(Tail(us))

NoBadQuery(t) == \A k \in 1..Len(task[t].queries) : task[t].queries[k].shape # "nokey"

\* C14: a single run in which any of the queries, or all of them, yield no
\* response still processes every query and ends completed; the counts it
\* returns and the counts stored on its job record equal the sum of the
\* per-query upsert counts, a query without response adding zero, and
\* queries_processed is the number of resolved queries.
C14_NoResponseSkipped ==
    \A t \in Tasks :
        task[t].kind = "single" =>
            /\ \A k \in 1..Len(task[t].upserts) :
                  ~task[t].upserts[k].response =>
                      (task[t].upserts[k].created = 0 /\ task[t].upserts[k].updated = 0)
            /\ (dbUp /\ Terminal(task[t]) /\ task[t].job # 0 /\ NoBadQuery(t)) =>
                  task[t].result = "completed"
            /\ task[t].result = "completed" =>
                  /\ task[t].asked = Len(task[t].queries)
                  /\ Len(task[t].upserts) = Len(task[t].queries)
                  /\ task[t].created = SumCreated(task[t].upserts)
                  /\ task[t].updated = SumUpdated(task[t].upserts)
                  /\ jobs[task[t].job].row.status = "completed"
                  /\ jobs[task[t].job].row.completed_at
                  /\ jobs[task[t].job].row.items_created = task[t].created
                  /\ jobs[task[t].job].row.items_updated = task[t].updated

\* a run of five queries completed with a credential: some queries had no
\* response, one created an item and a later one updated it
C14_Witness ==
    \E t \in Tasks :
        /\ apiKey
        /\ task[t].result = "completed"
        /\ Len(task[t].queries) = 5
        /\ \E k \in 1..5 : ~task[t].upserts[k].response
        /\ task[t].created = 1
        /\ task[t].updated = 1
        /\ jobs[task[t].job].row.items_created = 1
        /\ jobs[task[t].job].row.items_updated = 1

\* the execution of task t resolved its queries
Resolved(t) ==
    /\ task[t].kind = "single"
    /\ task[t].dsSeen # "unknown"
    /\ task[t].result # "ds_error"

\* the active categories of a user, as positions in the UserCategory rows
ActiveOf(uid) ==
    { k \in 1..Len(UserCategoryRows) :
        UserCategoryRows[k].user_id = uid /\ UserCategoryRows[k].is_active }

\* C15: queries given explicitly are used unchanged; otherwise a user id with
\* at least one active category resolves to exactly one query per active
\* category, carrying the category's id, name and user id, and a user id
\* without active category, or no user id, resolves to the five fallback
\* queries in their order, each with category name "General" and neither
\* category id nor user id.
C15_QueryResolution ==
    \A t \in Tasks :
        Resolved(t) =>
            LET r == task[t]
            IN  IF r.hasQ THEN r.queries = r.qarg
                ELSE IF r.user_id # NoneId /\ ActiveOf(r.user_id) # {}
                THEN /\ Len(r.queries) = Cardinality(ActiveOf(r.user_id))
                     /\ \A k \in ActiveOf(r.user_id) :
                           \E i \in 1..Len(r.queries) :
                               /\ r.queries[i].category_id = UserCategoryRows[k].id
                               /\ r.queries[i].category_name = UserCategoryRows[k].category_name
                               /\ r.queries[i].user_id = UserCategoryRows[k].user_id
                ELSE /\ Len(r.queries) = 5
                     /\ \A i \in 1..5 :
                           /\ r.queries[i].query = FallbackTexts[i]
                           /\ r.queries[i].category_name = "General"
                           /\ r.queries[i].category_id = NoneId
                           /\ r.queries[i].user_id = NoneId

\* the sub-run of user 2, who has an active and an inactive category, resolved
\* the one query of the active category
C15_Witness ==
    \E t \in Tasks :
        /\ Resolved(t)
        /\ task[t].user_id = 2
        /\ Cardinality(ActiveOf(2)) = 1
        /\ Len(task[t].queries) = 1
        /\ task[t].queries[1].category_name = "Music"
        /\ task[t].queries[1].category_id = 2

\* the sub-runs a fan-out invocation started that are still queued or executing
Outstanding == { s \in Subs : task[s].pc # "idle" /\ ~Terminal(task[s]) }

\* C16: a fan-out invocation dispatches its sub-runs one at a time: the next
\* sub-run is never dispatched while the previous one is still queued or
\* executing, so at most one sub-run of the invocation is outstanding, also
\* after the wait for a sub-run has timed out.
C16_OneOutstanding ==
    task[Top].kind = "fanout" => Cardinality(Outstanding) <= 1

\* the job records of the invocation in slot t
JobsOf(t) == { j \in 1..Len(jobs) : jobs[j].task = t }

\* the execution of task t is past the creation of its job record
PastCreation(t) == task[t].pc \in { "loop", "wait", "except" } \/ task[t].result = "completed"

\* C20: every execution that passes the data source resolution, each retry
\* included, creates its own job record, in status running; a retry never
\* reuses or reopens the record of an earlier attempt, so an invocation has
\* one record per such attempt, and all but possibly the last are failed.
\* (An attempt whose commit of the new record raises ends without a record.)
C20_JobPerAttempt ==
    /\ \A j, k \in 1..Len(jobs) :
          (jobs[j].task = jobs[k].task /\ jobs[j].attempt = jobs[k].attempt) => j = k
    /\ \A j \in 1..Len(jobs) :
          /\ jobs[j].attempt <= task[jobs[j].task].retries + 1
          /\ jobs[j].attempt <= task[jobs[j].task].retries =>
                (jobs[j].row.status = "failed" /\ jobs[j].obj.status = "failed")
    /\ \A t \in Tasks :
          /\ \A a \in 1..task[t].retries : \E j \in JobsOf(t) : jobs[j].attempt = a
          /\ PastCreation(t) =>
                /\ task[t].job \in JobsOf(t)
                /\ jobs[task[t].job].attempt = task[t].retries + 1
          /\ task[t].pc \in { "loop", "wait" } => jobs[task[t].job].row.status = "running"

\* the third execution of an invocation is in its loop: three job records,
\* the two of the earlier attempts failed, its own running
C20_Witness ==
    /\ task[Top].retries = 2
    /\ task[Top].pc = "loop"
    /\ Cardinality(JobsOf(Top)) = 3
    /\ Cardinality({ j \in JobsOf(Top) : jobs[j].row.status = "failed" }) = 2
    /\ jobs[task[Top].job].row.status = "running"
    /\ jobs[task[Top].job].attempt = 3

----------------------------------------------------------------------------
(* Claims about extract_content_from_response *)

\* the reference segmentation: the output and the open item after k lines
Flushed(st) == IF st.cur = EmptyItem THEN st.out ELSE Append(st.out, st.cur)
RefStep(st, l) ==
    CASE l.cls = "blank" -> [out |-> Flushed(st), cur |-> EmptyItem]
      [] l.cls = "title" -> [out |-> Flushed(st), cur |-> [EmptyItem EXCEPT !.title = l.text]]
      [] l.cls = "url"   -> [st EXCEPT !.cur.url = l.text]
      [] l.cls = "long"  -> [st EXCEPT !.cur.summary = l.text]
      [] l.cls = "short" -> st
RECURSIVE RefAfter(_, _)
RefAfter(lines, k) ==
    IF k = 0 THEN [out |-> <<>>, cur |-> EmptyItem]
    ELSE RefStep(RefAfter(lines, k - 1), lines[k])
Reference(lines) == Flushed(RefAfter(lines, Len(lines)))

\* the texts of the title lines, and the titles of the items, in their order
IsTitleLine(l) == l.cls = "title"
HasTitle(it) == it.title # Absent
TitleTexts(lines) == [k \in 1..Len(SelectSeq(lines, IsTitleLine)) |->
                         SelectSeq(lines, IsTitleLine)[k].text]
ItemTitles(items) == [k \in 1..Len(SelectSeq(items, HasTitle)) |->
                         SelectSeq(items, HasTitle)[k].title]

\* C17: extract_content_from_response returns exactly the reference
\* segmentation of the lines (a blank line flushes the open item if it is not
\* empty, a title line flushes it and opens an item with that title, a url
\* line sets the url, a long line overwrites the summary, a short line changes
\* nothing, the end of the input flushes); the output holds no empty item,
\* the items come in input order, and a malformed response gives the empty
\* list.
C17_ReferenceSegmentation ==
    \A w \in Writers :
        wr[w].ret = "extracted" =>
            LET resp == qc[Min(Clients)].result
            IN  /\ resp.kind = "choices" => wr[w].items = Reference(resp.content)
                /\ resp.kind # "choices" => wr[w].items = <<>>
                /\ \A k \in 1..Len(wr[w].items) : wr[w].items[k] # EmptyItem
                /\ resp.kind = "choices" => ItemTitles(wr[w].items) = TitleTexts(resp.content)

\* the lines "summary, blank, title B, url" gave two items: one without title
\* and the item titled B with its url
C17_Witness ==
    \E w \in Writers :
        /\ wr[w].ret = "extracted"
        /\ qc[Min(Clients)].result = Choices(<<Long("s1"), BlankLine, Title("B"), Url("u1")>>)
        /\ wr[w].items = << [title |-> Absent, summary |-> "s1", url |-> Absent],
                            [title |-> "B", summary |-> Absent, url |-> "u1"] >>

====
